---- MODULE Spec2Model ----
(***************************************************************************)
(* Model of imaginary's image operations (image.go): the operation         *)
(* catalog (Info, Resize, Enlarge, Extract, Crop, Rotate, Flip, Flop,      *)
(* Thumbnail, Zoom, Convert, Watermark) and the processing gateway         *)
(* Process, which calls the native engine (bimg.Resize) behind a           *)
(* defer/recover boundary.                                                 *)
(*                                                                         *)
(* One invocation is one action.  The native engine is an external         *)
(* collaborator: what it will do when called in the current invocation     *)
(* (return a buffer, return an error, panic with some value) is part of    *)
(* the request record, drawn from bounded sets.                            *)
(***************************************************************************)
EXTENDS Integers, Sequences, FiniteSets, TLC

VARIABLES
    pc,         \* "called": a request awaits its operation; "returned": it ran
    req,        \* the invocation: operation name, buffer, ImageOptions, engine behaviour
    res,        \* what the operation returned: [out: Image, err: error]
    calls,      \* the (buffer, bimg.Options) pairs handed to bimg.Resize, in order
    metaCalls,  \* how many times bimg.Metadata was called in this invocation
    escaped,    \* the panic value that left the operation (NoPanic when none did)
    failures,   \* how many earlier invocations ended in an engine failure or panic
    frame,      \* Process's named results and panic in flight, before its defer runs
    alone,      \* what the invocation yields when nothing else runs
    preempted,  \* whether the goroutine was switched out inside Process
    parked      \* the goroutines that are not running, each with its own state

vars ==
    <<pc, req, res, calls, metaCalls, escaped, failures,
      frame, alone, preempted, parked>>

(***************************************************************************)
(* Bounds of the model.                                                    *)
(***************************************************************************)
\* Integer option fields range over -1..MaxDim.
MaxDim == 2
\* Watermark colour arrays have 0..MaxColorLen components.
MaxColorLen == 4
\* The sequential specification counts earlier failures up to this cap.
MaxFailures == 2

Dim == -1 .. MaxDim
NatDim == 0 .. MaxDim

(***************************************************************************)
(* Buffers, image types, MIME types.                                       *)
(***************************************************************************)
\* Buffers are byte sequences; the first bytes are the format's magic number.
JpegBuf == <<255, 216, 1>>
PngBuf == <<137, 80, 2>>
WebpBuf == <<82, 73, 3>>
JunkBuf == <<0, 0, 4>>
EmptyBuf == <<>>

InBuffers == {JpegBuf, PngBuf}
OutBuffers == {JpegBuf, PngBuf, WebpBuf, JunkBuf}

\* bimg.DetermineImageType: sniff the type from the buffer's leading bytes.
DetermineImageType(buf) ==
    IF Len(buf) < 2 THEN "UNKNOWN"
    ELSE IF buf[1] = 255 /\ buf[2] = 216 THEN "JPEG"
    ELSE IF buf[1] = 137 /\ buf[2] = 80 THEN "PNG"
    ELSE IF buf[1] = 82 /\ buf[2] = 73 THEN "WEBP"
    ELSE "UNKNOWN"

\* GetImageMimeType: the MIME type of an image type (a pure lookup).
GetImageMimeType(t) ==
    CASE t = "PNG" -> "image/png"
      [] t = "WEBP" -> "image/webp"
      [] OTHER -> "image/jpeg"

\* ImageType: the image type a requested type name stands for; UNKNOWN is the
\* unknown-format sentinel.
ImageType(name) ==
    CASE name = "jpeg" -> "JPEG"
      [] name = "png" -> "PNG"
      [] name = "webp" -> "WEBP"
      [] OTHER -> "UNKNOWN"

(***************************************************************************)
(* Error values.  A message is the sequence of the strings concatenated    *)
(* to build it.                                                            *)
(***************************************************************************)
BadRequest == "BadRequest"

Nil == [type |-> "nil", msg |-> <<>>, code |-> "none"]

\* NewError(msg, code): the repository's Error value.
NewError(msg, code) == [type |-> "Error", msg |-> msg, code |-> code]

\* errors.New(msg): a plain Go error.
errorsNew(msg) == [type |-> "errorString", msg |-> msg, code |-> "none"]

\* err.Error(): the message of an error, as the strings it is made of.
ErrorText(err) == err.msg

(***************************************************************************)
(* Image, the result type.                                                 *)
(***************************************************************************)
Image(body, mime) == [Body |-> body, Mime |-> mime]

\* Image{}: the zero value.
EmptyImage == Image(EmptyBuf, "")

(***************************************************************************)
(* Panics.  A panic value is an error, a string, or a value of another     *)
(* type; NoPanic says that no panic is in flight.                          *)
(***************************************************************************)
NoPanic == [type |-> "none", str |-> "", err |-> Nil]

PanicError(e) == [type |-> "error", str |-> "", err |-> e]
PanicString(s) == [type |-> "string", str |-> s, err |-> Nil]
PanicOther == [type |-> "other", str |-> "", err |-> Nil]

PanicValues ==
    {PanicError(errorsNew(<<"runtime error: index out of range">>)),
     PanicString("vips: fatal"),
     PanicOther}

(***************************************************************************)
(* ImageOptions, the request's options, and bimg.Options, the engine's.    *)
(***************************************************************************)
\* The zero value of ImageOptions: nothing requested.
ZeroOptions ==
    [Width |-> 0, Height |-> 0, AreaWidth |-> 0, AreaHeight |-> 0,
     Top |-> 0, Left |-> 0, Factor |-> 0, Rotate |-> 0,
     NoCrop |-> FALSE, Embed |-> FALSE, Flip |-> FALSE, Flop |-> FALSE,
     Type |-> "", Text |-> "", Font |-> "", Margin |-> 0, DPI |-> 0,
     TextWidth |-> 0, Opacity |-> 0, NoReplicate |-> FALSE, Color |-> <<>>]

\* An ImageOptions value with every field requested.
BusyOptions ==
    [Width |-> 1, Height |-> 2, AreaWidth |-> 3, AreaHeight |-> 4,
     Top |-> 5, Left |-> 6, Factor |-> 7, Rotate |-> 90,
     NoCrop |-> TRUE, Embed |-> TRUE, Flip |-> TRUE, Flop |-> TRUE,
     Type |-> "png", Text |-> "hi", Font |-> "sans", Margin |-> 8, DPI |-> 72,
     TextWidth |-> 200, Opacity |-> 1, NoReplicate |-> TRUE,
     Color |-> <<10, 20, 30>>]

Profiles == {ZeroOptions, BusyOptions}

\* bimg.Color{}: the unset colour.
NoColor == <<0, 0, 0>>

\* bimg.Watermark{}: the zero value.
ZeroWatermark ==
    [Text |-> "", Font |-> "", Margin |-> 0, DPI |-> 0, Width |-> 0,
     Opacity |-> 0, NoReplicate |-> FALSE, Background |-> NoColor]

\* BimgOptions: the option mapper, a field-for-field copy with every other
\* engine field left at its zero value.
BimgOptions(o) ==
    [Width |-> o.Width, Height |-> o.Height,
     Rotate |-> o.Rotate, Flip |-> o.Flip, Flop |-> o.Flop,
     Type |-> ImageType(o.Type),
     Crop |-> FALSE, Embed |-> FALSE, Enlarge |-> FALSE, Zoom |-> 0,
     Top |-> 0, Left |-> 0, AreaWidth |-> 0, AreaHeight |-> 0,
     Watermark |-> ZeroWatermark]

(***************************************************************************)
(* The native engine.  bimg.Resize and bimg.Metadata are opaque: what the  *)
(* call does in the current invocation is the request's eng / meta field.  *)
(***************************************************************************)
EngineOk(b) == [kind |-> "ok", buf |-> b, err |-> Nil, panic |-> NoPanic]
EngineErr(e) == [kind |-> "err", buf |-> EmptyBuf, err |-> e, panic |-> NoPanic]
EnginePanic(p) == [kind |-> "panic", buf |-> EmptyBuf, err |-> Nil, panic |-> p]

EngineErrors == {errorsNew(<<"Unsupported image format">>)}

EngineOutcomes ==
    {EngineOk(b) : b \in OutBuffers}
        \cup {EngineErr(e) : e \in EngineErrors}
        \cup {EnginePanic(p) : p \in PanicValues}

\* bimg.Resize(buf, opts): the outcome of the native resize call.
bimgResize(buf, opts) == req.eng

Metas ==
    {[Size |-> [Width |-> 1, Height |-> 2], Type |-> "jpeg", Space |-> "srgb",
      Alpha |-> FALSE, Profile |-> FALSE, Channels |-> 3, Orientation |-> 0],
     [Size |-> [Width |-> 2, Height |-> 1], Type |-> "png", Space |-> "b-w",
      Alpha |-> TRUE, Profile |-> TRUE, Channels |-> 4, Orientation |-> 6]}

ZeroMeta ==
    [Size |-> [Width |-> 0, Height |-> 0], Type |-> "", Space |-> "",
     Alpha |-> FALSE, Profile |-> FALSE, Channels |-> 0, Orientation |-> 0]

MetaOk(m) == [meta |-> m, err |-> Nil]
MetaErr(e) == [meta |-> ZeroMeta, err |-> e]

MetaOutcomes ==
    {MetaOk(m) : m \in Metas} \cup {MetaErr(e) : e \in EngineErrors}

\* bimg.Metadata(buf): the outcome of the native metadata query.
bimgMetadata(buf) == req.meta

(***************************************************************************)
(* What an operation yields: the returned Image and error, the engine      *)
(* calls it made, and the panic still in flight when it ended.             *)
(***************************************************************************)
Yield(out, err, cs, mc, p) ==
    [out |-> out, err |-> err, calls |-> cs, meta |-> mc, panic |-> p]

(***************************************************************************)
(* Process, the processing gateway.                                        *)
(***************************************************************************)
\* ProcessBody that takes the MIME type from the requested output type.
ProcessBodyMimeFromOpts(buf, opts) ==
    LET r == bimgResize(buf, opts)
        cs == <<[buf |-> buf, opts |-> opts]>>
    IN  IF r.kind = "panic"
        THEN Yield(EmptyImage, Nil, cs, 0, r.panic)
        ELSE IF r.err # Nil
        THEN Yield(EmptyImage, r.err, cs, 0, NoPanic)
        ELSE Yield(Image(r.buf, GetImageMimeType(opts.Type)), Nil, cs, 0, NoPanic)

\* ProcessBody that wraps the engine's error in a bad-request Error.
ProcessBodyWrapsError(buf, opts) ==
    LET r == bimgResize(buf, opts)
        cs == <<[buf |-> buf, opts |-> opts]>>
    IN  IF r.kind = "panic"
        THEN Yield(EmptyImage, Nil, cs, 0, r.panic)
        ELSE IF r.err # Nil
        THEN Yield(EmptyImage, NewError(ErrorText(r.err), BadRequest), cs, 0, NoPanic)
        ELSE Yield(Image(r.buf, GetImageMimeType(DetermineImageType(r.buf))),
                   Nil, cs, 0, NoPanic)

\* The body of Process: the native call, then the error check and the MIME
\* lookup.  A panic of the native call leaves the named results out and err
\* at their zero values and stays in flight.
ProcessBody(buf, opts) ==
    LET r == bimgResize(buf, opts)
        cs == <<[buf |-> buf, opts |-> opts]>>
    IN  IF r.kind = "panic"
        THEN Yield(EmptyImage, Nil, cs, 0, r.panic)
        ELSE IF r.err # Nil
        THEN Yield(EmptyImage, r.err, cs, 0, NoPanic)
        ELSE Yield(Image(r.buf, GetImageMimeType(DetermineImageType(r.buf))),
                   Nil, cs, 0, NoPanic)

\* ProcessDeferred with a deferred function that handles only the error and
\* string cases and panics again on any other value.
ProcessDeferredRepanic(y) ==
    LET r == y.panic
    IN  IF r # NoPanic /\ r.type \in {"error", "string"}
        THEN LET err == CASE r.type = "error" -> r.err
                          [] OTHER -> errorsNew(<<r.str>>)
             IN  Yield(EmptyImage, err, y.calls, y.meta, NoPanic)
        ELSE y

\* The deferred function of Process: recover() takes the panic in flight, if
\* any, and the named results are set from its value.
ProcessDeferred(y) ==
    LET r == y.panic
    IN  IF r # NoPanic
        THEN LET err == CASE r.type = "error" -> r.err
                          [] r.type = "string" -> errorsNew(<<r.str>>)
                          [] OTHER -> errorsNew(<<"libvips internal error">>)
             IN  Yield(EmptyImage, err, y.calls, y.meta, NoPanic)
        ELSE y

\* Process with err kept in a package-level variable: an earlier failure's
\* error is still set when a later call returns.
ProcessSharedErr(buf, opts) ==
    LET y == ProcessDeferred(ProcessBody(buf, opts))
    IN  IF failures > 0 /\ y.err = Nil
        THEN Yield(EmptyImage, errorsNew(<<"Unsupported image format">>),
                   y.calls, y.meta, NoPanic)
        ELSE y


Process(buf, opts) == ProcessDeferred(ProcessBody(buf, opts))

\* A validation failure: Image{} and a bad-request error, no engine call.
Reject(msg) == Yield(EmptyImage, NewError(msg, BadRequest), <<>>, 0, NoPanic)

(***************************************************************************)
(* The operation catalog.                                                  *)
(***************************************************************************)
\* json.Marshal(info): the document's fields, under their struct tags.
jsonMarshal(info) ==
    <<<<"Width (in pixels) of image area to extract/resize.", info.Width>>,
      <<"height", info.Height>>,
      <<"type", info.Type>>,
      <<"space", info.Space>>,
      <<"hasAlpha", info.Alpha>>,
      <<"hasProfile", info.Profile>>,
      <<"channels", info.Channels>>,
      <<"orientation", info.Orientation>>>>

\* Info with the width and height of the metadata swapped.
InfoSwapsSize(buf, o) ==
    LET image == Image(EmptyBuf, "application/json")
        m == bimgMetadata(buf)
        meta == m.meta
    IN  IF m.err # Nil
        THEN Yield(image,
                   NewError(<<"Cannot retrieve image medatata: %s">> \o ErrorText(m.err),
                            BadRequest),
                   <<>>, 1, NoPanic)
        ELSE LET info == [Width |-> meta.Size.Height, Height |-> meta.Size.Width,
                          Type |-> meta.Type, Space |-> meta.Space,
                          Alpha |-> meta.Alpha, Profile |-> meta.Profile,
                          Channels |-> meta.Channels,
                          Orientation |-> meta.Orientation]
             IN  Yield([image EXCEPT !.Body = jsonMarshal(info)], Nil, <<>>, 1, NoPanic)


Info(buf, o) ==
    LET image == Image(EmptyBuf, "application/json")
        m == bimgMetadata(buf)
        meta == m.meta
    IN  IF m.err # Nil
        THEN Yield(image,
                   NewError(<<"Cannot retrieve image medatata: %s">> \o ErrorText(m.err),
                            BadRequest),
                   <<>>, 1, NoPanic)
        ELSE LET info == [Width |-> meta.Size.Width, Height |-> meta.Size.Height,
                          Type |-> meta.Type, Space |-> meta.Space,
                          Alpha |-> meta.Alpha, Profile |-> meta.Profile,
                          Channels |-> meta.Channels,
                          Orientation |-> meta.Orientation]
             IN  Yield([image EXCEPT !.Body = jsonMarshal(info)], Nil, <<>>, 1, NoPanic)

\* Resize that sets crop whatever NoCrop says.
ResizeAlwaysCrop(buf, o) ==
    IF o.Width = 0 /\ o.Height = 0
    THEN Reject(<<"Missing required param: height or width">>)
    ELSE LET opts == [BimgOptions(o) EXCEPT !.Embed = TRUE, !.Crop = TRUE]
         IN  Process(buf, opts)


Resize(buf, o) ==
    IF o.Width = 0 /\ o.Height = 0
    THEN Reject(<<"Missing required param: height or width">>)
    ELSE LET opts0 == [BimgOptions(o) EXCEPT !.Embed = TRUE]
             opts == IF o.NoCrop = FALSE THEN [opts0 EXCEPT !.Crop = TRUE] ELSE opts0
         IN  Process(buf, opts)

\* Enlarge with Resize's test: only both dimensions zero is refused.
EnlargeEither(buf, o) ==
    IF o.Width = 0 /\ o.Height = 0
    THEN Reject(<<"Missing required params: height, width">>)
    ELSE LET opts0 == [BimgOptions(o) EXCEPT !.Enlarge = TRUE]
             opts == IF o.NoCrop = FALSE THEN [opts0 EXCEPT !.Crop = TRUE] ELSE opts0
         IN  Process(buf, opts)


Enlarge(buf, o) ==
    IF o.Width = 0 \/ o.Height = 0
    THEN Reject(<<"Missing required params: height, width">>)
    ELSE LET opts0 == [BimgOptions(o) EXCEPT !.Enlarge = TRUE]
             opts == IF o.NoCrop = FALSE THEN [opts0 EXCEPT !.Crop = TRUE] ELSE opts0
         IN  Process(buf, opts)

Extract(buf, o) ==
    IF o.AreaWidth = 0 \/ o.AreaHeight = 0
    THEN Reject(<<"Missing required params: areawidth or areaheight">>)
    ELSE LET opts == [BimgOptions(o) EXCEPT !.Top = o.Top, !.Left = o.Left,
                                            !.AreaWidth = o.AreaWidth,
                                            !.AreaHeight = o.AreaHeight]
         IN  Process(buf, opts)

\* Crop without its parameter check.
CropUnchecked(buf, o) ==
    LET opts == [BimgOptions(o) EXCEPT !.Crop = TRUE]
    IN  Process(buf, opts)


Crop(buf, o) ==
    IF o.Width = 0 /\ o.Height = 0
    THEN Reject(<<"Missing required param: height or width">>)
    ELSE LET opts == [BimgOptions(o) EXCEPT !.Crop = TRUE]
         IN  Process(buf, opts)

Rotate(buf, o) ==
    IF o.Rotate = 0
    THEN Reject(<<"Missing required param: rotate">>)
    ELSE LET opts == BimgOptions(o)
         IN  Process(buf, opts)

\* Flip that flips only when the request asks for it: the mapper's options
\* go to Process as they are.
FlipWhenRequested(buf, o) ==
    LET opts == BimgOptions(o)
    IN  Process(buf, opts)

Flip(buf, o) ==
    LET opts == [BimgOptions(o) EXCEPT !.Flip = TRUE]
    IN  Process(buf, opts)

Flop(buf, o) ==
    LET opts == [BimgOptions(o) EXCEPT !.Flop = TRUE]
    IN  Process(buf, opts)

Thumbnail(buf, o) ==
    IF o.Width = 0 /\ o.Height = 0
    THEN Reject(<<"Missing required params: width or height">>)
    ELSE Process(buf, BimgOptions(o))

\* Zoom that asks for both sides of the rectangle, as Extract does.
ZoomNeedsBothSides(buf, o) ==
    IF o.Factor = 0
    THEN Reject(<<"Missing required param: factor">>)
    ELSE LET opts0 == BimgOptions(o)
         IN  IF o.Top > 0 \/ o.Left > 0
             THEN IF o.AreaWidth = 0 \/ o.AreaHeight = 0
                  THEN Reject(<<"Missing required params: areawidth, areaheight">>)
                  ELSE LET opts1 == [opts0 EXCEPT !.Top = o.Top, !.Left = o.Left,
                                                  !.AreaWidth = o.AreaWidth,
                                                  !.AreaHeight = o.AreaHeight]
                           opts2 == IF o.NoCrop = FALSE
                                    THEN [opts1 EXCEPT !.Crop = TRUE]
                                    ELSE opts1
                       IN  Process(buf, [opts2 EXCEPT !.Zoom = o.Factor])
             ELSE Process(buf, [opts0 EXCEPT !.Zoom = o.Factor])

\* Zoom that tests the extraction rectangle only after the engine has run.
ZoomLateCheck(buf, o) ==
    IF o.Factor = 0
    THEN Reject(<<"Missing required param: factor">>)
    ELSE LET opts0 == BimgOptions(o)
         IN  IF o.Top > 0 \/ o.Left > 0
             THEN LET opts1 == [opts0 EXCEPT !.Top = o.Top, !.Left = o.Left,
                                             !.AreaWidth = o.AreaWidth,
                                             !.AreaHeight = o.AreaHeight]
                      opts2 == IF o.NoCrop = FALSE
                               THEN [opts1 EXCEPT !.Crop = TRUE]
                               ELSE opts1
                      y == Process(buf, [opts2 EXCEPT !.Zoom = o.Factor])
                  IN  IF o.AreaWidth = 0 /\ o.AreaHeight = 0
                      THEN [Reject(<<"Missing required params: areawidth, areaheight">>)
                                EXCEPT !.calls = y.calls]
                      ELSE y
             ELSE Process(buf, [opts0 EXCEPT !.Zoom = o.Factor])

\* Zoom that asks for the rectangle only when top and left are both set.
ZoomBothOffsets(buf, o) ==
    IF o.Factor = 0
    THEN Reject(<<"Missing required param: factor">>)
    ELSE LET opts0 == BimgOptions(o)
         IN  IF o.Top > 0 /\ o.Left > 0
             THEN IF o.AreaWidth = 0 /\ o.AreaHeight = 0
                  THEN Reject(<<"Missing required params: areawidth, areaheight">>)
                  ELSE LET opts1 == [opts0 EXCEPT !.Top = o.Top, !.Left = o.Left,
                                                  !.AreaWidth = o.AreaWidth,
                                                  !.AreaHeight = o.AreaHeight]
                           opts2 == IF o.NoCrop = FALSE
                                    THEN [opts1 EXCEPT !.Crop = TRUE]
                                    ELSE opts1
                       IN  Process(buf, [opts2 EXCEPT !.Zoom = o.Factor])
             ELSE Process(buf, [opts0 EXCEPT !.Zoom = o.Factor])


Zoom(buf, o) ==
    IF o.Factor = 0
    THEN Reject(<<"Missing required param: factor">>)
    ELSE LET opts0 == BimgOptions(o)
         IN  IF o.Top > 0 \/ o.Left > 0
             THEN IF o.AreaWidth = 0 /\ o.AreaHeight = 0
                  THEN Reject(<<"Missing required params: areawidth, areaheight">>)
                  ELSE LET opts1 == [opts0 EXCEPT !.Top = o.Top, !.Left = o.Left,
                                                  !.AreaWidth = o.AreaWidth,
                                                  !.AreaHeight = o.AreaHeight]
                           opts2 == IF o.NoCrop = FALSE
                                    THEN [opts1 EXCEPT !.Crop = TRUE]
                                    ELSE opts1
                       IN  Process(buf, [opts2 EXCEPT !.Zoom = o.Factor])
             ELSE Process(buf, [opts0 EXCEPT !.Zoom = o.Factor])

\* Convert without the test for the unknown-format sentinel.
ConvertNoSentinel(buf, o) ==
    IF o.Type = ""
    THEN Reject(<<"Missing required param: type">>)
    ELSE LET opts == BimgOptions(o)
         IN  Process(buf, opts)


Convert(buf, o) ==
    IF o.Type = ""
    THEN Reject(<<"Missing required param: type">>)
    ELSE IF ImageType(o.Type) = "UNKNOWN"
    THEN Reject(<<"Invalid image type: ", o.Type>>)
    ELSE LET opts == BimgOptions(o)
         IN  Process(buf, opts)

\* Watermark that forgets to copy the text width.
WatermarkNoWidth(buf, o) ==
    IF o.Text = ""
    THEN Reject(<<"Missing required param: text">>)
    ELSE LET opts0 == BimgOptions(o)
             wm == [opts0.Watermark EXCEPT !.DPI = o.DPI, !.Text = o.Text,
                                           !.Font = o.Font, !.Margin = o.Margin,
                                           !.Opacity = o.Opacity,
                                           !.NoReplicate = o.NoReplicate]
             wm2 == IF Len(o.Color) > 2
                    THEN [wm EXCEPT !.Background = <<o.Color[1], o.Color[2], o.Color[3]>>]
                    ELSE wm
         IN  Process(buf, [opts0 EXCEPT !.Watermark = wm2])

\* Watermark whose colour test is off by one: len(o.Color) > 3.
WatermarkColorOffByOne(buf, o) ==
    IF o.Text = ""
    THEN Reject(<<"Missing required param: text">>)
    ELSE LET opts0 == BimgOptions(o)
             wm == [opts0.Watermark EXCEPT !.DPI = o.DPI, !.Text = o.Text,
                                           !.Font = o.Font, !.Margin = o.Margin,
                                           !.Width = o.TextWidth,
                                           !.Opacity = o.Opacity,
                                           !.NoReplicate = o.NoReplicate]
             wm2 == IF Len(o.Color) > 3
                    THEN [wm EXCEPT !.Background = <<o.Color[1], o.Color[2], o.Color[3]>>]
                    ELSE wm
         IN  Process(buf, [opts0 EXCEPT !.Watermark = wm2])


Watermark(buf, o) ==
    IF o.Text = ""
    THEN Reject(<<"Missing required param: text">>)
    ELSE LET opts0 == BimgOptions(o)
             wm == [opts0.Watermark EXCEPT !.DPI = o.DPI, !.Text = o.Text,
                                           !.Font = o.Font, !.Margin = o.Margin,
                                           !.Width = o.TextWidth,
                                           !.Opacity = o.Opacity,
                                           !.NoReplicate = o.NoReplicate]
             wm2 == IF Len(o.Color) > 2
                    THEN [wm EXCEPT !.Background = <<o.Color[1], o.Color[2], o.Color[3]>>]
                    ELSE wm
         IN  Process(buf, [opts0 EXCEPT !.Watermark = wm2])

(***************************************************************************)
(* Requests: the invocations the model draws from.                         *)
(***************************************************************************)
Ops ==
    {"Info", "Resize", "Enlarge", "Extract", "Crop", "Rotate", "Flip", "Flop",
     "Thumbnail", "Zoom", "Convert", "Watermark"}

\* The engine outcome of a request that never reads it.
IdleEngine == EngineOk(JpegBuf)
IdleMeta == MetaOk(ZeroMeta)

Request(op, buf, o, eng, meta) ==
    [op |-> op, buf |-> buf, o |-> o, eng |-> eng, meta |-> meta]

\* Colour arrays of 0..MaxColorLen components.
Colors ==
    UNION {[1 .. n -> {1, 2}] : n \in 0 .. MaxColorLen}

Angles == {0, 45, 90, 180, 270, -90}

TypeNames == {"", "jpeg", "png", "webp", "bmp", "JPEG"}

\* The ImageOptions values an operation is tried on: the fields it reads
\* range over their sets, the others are those of a profile.
OptionsOf(op) ==
    CASE op \in {"Resize", "Enlarge", "Crop", "Thumbnail"} ->
            {[p EXCEPT !.Width = w, !.Height = h, !.NoCrop = nc] :
                p \in Profiles, w \in Dim, h \in Dim, nc \in BOOLEAN}
      [] op = "Extract" ->
            {[p EXCEPT !.Top = t, !.Left = l, !.AreaWidth = aw, !.AreaHeight = ah] :
                p \in Profiles, t \in NatDim, l \in NatDim, aw \in Dim, ah \in Dim}
      [] op = "Rotate" ->
            {[p EXCEPT !.Rotate = a] : p \in Profiles, a \in Angles}
      [] op \in {"Flip", "Flop"} ->
            {[p EXCEPT !.Flip = f, !.Flop = g] :
                p \in Profiles, f \in BOOLEAN, g \in BOOLEAN}
      [] op = "Zoom" ->
            {[p EXCEPT !.Factor = f, !.Top = t, !.Left = l, !.AreaWidth = aw,
                       !.AreaHeight = ah, !.NoCrop = nc] :
                p \in Profiles, f \in Dim, t \in Dim, l \in Dim,
                aw \in Dim, ah \in Dim, nc \in BOOLEAN}
      [] op = "Convert" ->
            {[p EXCEPT !.Type = t] : p \in Profiles, t \in TypeNames}
      [] op = "Watermark" ->
            {[p EXCEPT !.Text = t, !.Color = c] :
                p \in Profiles, t \in {"", "hi"}, c \in Colors}
      [] OTHER -> Profiles

\* The engine behaviours an operation is tried with: Info reads only the
\* metadata query's outcome, the others only the resize call's.
EnvOf(op) ==
    IF op = "Info"
    THEN {[eng |-> IdleEngine, meta |-> m] : m \in MetaOutcomes}
    ELSE {[eng |-> e, meta |-> IdleMeta] : e \in EngineOutcomes}

(***************************************************************************)
(* The state machine.                                                      *)
(***************************************************************************)
NoResult == [out |-> EmptyImage, err |-> Nil]

\* The frame of an invocation that has not entered Process.
NoYield == Yield(EmptyImage, Nil, <<>>, 0, NoPanic)

Start(r) ==
    /\ pc = "called"
    /\ req = r
    /\ res = NoResult
    /\ calls = <<>>
    /\ metaCalls = 0
    /\ escaped = NoPanic
    /\ failures = 0
    /\ frame = NoYield
    /\ alone = NoYield
    /\ preempted = FALSE
    /\ parked = <<>>

Init ==
    \E op \in Ops : \E b \in InBuffers : \E o \in OptionsOf(op) : \E e \in EnvOf(op) :
        Start(Request(op, b, o, e.eng, e.meta))

\* The sequential specification draws every operation on each profile.
InitSeq ==
    \E op \in Ops : \E o \in Profiles : \E e \in EnvOf(op) :
        Start(Request(op, JpegBuf, o, e.eng, e.meta))

\* Operation.Run: the requested operation runs to its end and returns.
Run(op, y) ==
    /\ pc = "called"
    /\ req.op = op
    /\ pc' = "returned"
    /\ res' = [out |-> y.out, err |-> y.err]
    /\ calls' = y.calls
    /\ metaCalls' = y.meta
    /\ escaped' = y.panic
    /\ UNCHANGED <<req, failures, frame, alone, preempted, parked>>

RunInfo == Run("Info", Info(req.buf, req.o))
RunResize == Run("Resize", Resize(req.buf, req.o))
RunEnlarge == Run("Enlarge", Enlarge(req.buf, req.o))
RunExtract == Run("Extract", Extract(req.buf, req.o))
RunCrop == Run("Crop", Crop(req.buf, req.o))
RunRotate == Run("Rotate", Rotate(req.buf, req.o))
RunFlip == Run("Flip", Flip(req.buf, req.o))
RunFlop == Run("Flop", Flop(req.buf, req.o))
RunThumbnail == Run("Thumbnail", Thumbnail(req.buf, req.o))
RunZoom == Run("Zoom", Zoom(req.buf, req.o))
RunConvert == Run("Convert", Convert(req.buf, req.o))
RunWatermark == Run("Watermark", Watermark(req.buf, req.o))

RunOperation ==
    \/ RunInfo
    \/ RunResize
    \/ RunEnlarge
    \/ RunExtract
    \/ RunCrop
    \/ RunRotate
    \/ RunFlip
    \/ RunFlop
    \/ RunThumbnail
    \/ RunZoom
    \/ RunConvert
    \/ RunWatermark

\* Whether the invocation that returned ended in an engine failure or an
\* abnormal termination of the engine.
EngineFailed == Len(calls) > 0 /\ req.eng.kind # "ok"

\* The caller, still running (no panic reached it), issues the next invocation.
NextCall ==
    /\ pc = "returned"
    /\ escaped = NoPanic
    /\ EngineFailed => failures < MaxFailures
    /\ \E op \in Ops : \E o \in Profiles : \E e \in EnvOf(op) :
            req' = Request(op, JpegBuf, o, e.eng, e.meta)
    /\ pc' = "called"
    /\ res' = NoResult
    /\ calls' = <<>>
    /\ metaCalls' = 0
    /\ failures' = IF EngineFailed THEN failures + 1 ELSE failures
    /\ UNCHANGED <<escaped, frame, alone, preempted, parked>>

Next == RunOperation

Spec == Init /\ [][Next]_vars

NextSeq == RunOperation \/ NextCall

SpecSeq == InitSeq /\ [][NextSeq]_vars

(***************************************************************************)
(* Concurrent invocations.  Every goroutine runs one invocation on its own *)
(* stack: its buffer, its ImageOptions, its bimg.Options, Process's named  *)
(* results and the panic in flight are its own.  The scheduler may switch  *)
(* goroutines between any two steps; a panic that leaves a goroutine ends  *)
(* the program and with it every invocation that has not returned.         *)
(***************************************************************************)
Goroutines == 2

\* The operation named op applied to (buf, o).
OpYield(op, buf, o) ==
    CASE op = "Info" -> Info(buf, o)
      [] op = "Resize" -> Resize(buf, o)
      [] op = "Enlarge" -> Enlarge(buf, o)
      [] op = "Extract" -> Extract(buf, o)
      [] op = "Crop" -> Crop(buf, o)
      [] op = "Rotate" -> Rotate(buf, o)
      [] op = "Flip" -> Flip(buf, o)
      [] op = "Flop" -> Flop(buf, o)
      [] op = "Thumbnail" -> Thumbnail(buf, o)
      [] op = "Zoom" -> Zoom(buf, o)
      [] op = "Convert" -> Convert(buf, o)
      [] op = "Watermark" -> Watermark(buf, o)

\* A goroutine about to run the invocation r.
Goroutine(r) ==
    [pc |-> "called", req |-> r, res |-> NoResult, calls |-> <<>>,
     metaCalls |-> 0, escaped |-> NoPanic, frame |-> NoYield,
     alone |-> NoYield, preempted |-> FALSE]

\* The running goroutine.
Running ==
    [pc |-> pc, req |-> req, res |-> res, calls |-> calls,
     metaCalls |-> metaCalls, escaped |-> escaped, frame |-> frame,
     alone |-> alone, preempted |-> preempted]

\* The engine outcomes of the concurrent invocations.
ConcEngines ==
    {EngineOk(PngBuf), EngineErr(errorsNew(<<"Unsupported image format">>)),
     EnginePanic(PanicString("vips: fatal")), EnginePanic(PanicOther)}

\* The engine outcomes drawn for the operation op.
ConcEnginesOf(op) ==
    CASE op = "Resize" -> ConcEngines
      [] op \in {"Enlarge", "Crop", "Flip", "Zoom"} -> {EngineOk(PngBuf)}
      [] op \in {"Extract", "Flop", "Convert"} -> {EnginePanic(PanicOther)}
      [] op \in {"Rotate", "Thumbnail"} -> {EnginePanic(PanicString("vips: fatal"))}
      [] OTHER -> {EngineErr(errorsNew(<<"Unsupported image format">>))}

\* The invocations that run concurrently: every operation with its inputs
\* present, Resize under each engine outcome, and one Resize that validation
\* refuses.
ConcRequests ==
    UNION {{Request(op, JpegBuf, BusyOptions, e, IdleMeta) : e \in ConcEnginesOf(op)} :
                op \in Ops \ {"Info"}}
        \cup {Request("Info", JpegBuf, BusyOptions, IdleEngine, m) : m \in MetaOutcomes}
        \cup {Request("Resize", JpegBuf, ZeroOptions, EngineOk(PngBuf), IdleMeta)}

InitConc ==
    /\ \E r \in ConcRequests :
            /\ pc = "called"
            /\ req = r
    /\ res = NoResult
    /\ calls = <<>>
    /\ metaCalls = 0
    /\ escaped = NoPanic
    /\ failures = 0
    /\ frame = NoYield
    /\ alone = NoYield
    /\ preempted = FALSE
    /\ parked \in [1 .. Goroutines - 1 -> {Goroutine(r) : r \in ConcRequests}]

\* The running goroutine enters its operation: validation, the options, and
\* for the transforming operations the entry of Process up to the native
\* call.  An operation that never reaches Process returns here.
ConcCall ==
    /\ pc = "called"
    /\ escaped = NoPanic
    /\ LET y == OpYield(req.op, req.buf, req.o)
       IN  /\ alone' = y
           /\ calls' = y.calls
           /\ metaCalls' = y.meta
           /\ IF Len(y.calls) = 0
              THEN /\ pc' = "returned"
                   /\ res' = [out |-> y.out, err |-> y.err]
              ELSE /\ pc' = "engine"
                   /\ res' = res
    /\ UNCHANGED <<req, escaped, failures, frame, preempted, parked>>

\* The native call of the running goroutine ends: it returns or panics, and
\* the body of Process sets the named results.
ConcEngine ==
    /\ pc = "engine"
    /\ escaped = NoPanic
    /\ frame' = ProcessBody(calls[1].buf, calls[1].opts)
    /\ pc' = "deferred"
    /\ UNCHANGED <<req, res, calls, metaCalls, escaped, failures, alone,
                   preempted, parked>>

\* The goroutines left when the panic p leaves the running goroutine.
AfterPanic(p) ==
    IF p = NoPanic
    THEN parked
    ELSE [i \in DOMAIN parked |->
            IF parked[i].pc = "returned"
            THEN parked[i]
            ELSE [parked[i] EXCEPT !.pc = "killed"]]

\* The deferred function of the running goroutine's Process runs and
\* Process returns to the operation, which returns to its caller.
ConcDeferred ==
    /\ pc = "deferred"
    /\ escaped = NoPanic
    /\ LET y == ProcessDeferred(frame)
       IN  /\ res' = [out |-> y.out, err |-> y.err]
           /\ escaped' = y.panic
           /\ parked' = AfterPanic(y.panic)
    /\ pc' = "returned"
    /\ UNCHANGED <<req, calls, metaCalls, failures, frame, alone, preempted>>

\* The scheduler switches to a goroutine that has not returned.
ConcSwitch ==
    /\ escaped = NoPanic
    /\ \E i \in DOMAIN parked :
            /\ parked[i].pc \in {"called", "engine", "deferred"}
            /\ pc' = parked[i].pc
            /\ req' = parked[i].req
            /\ res' = parked[i].res
            /\ calls' = parked[i].calls
            /\ metaCalls' = parked[i].metaCalls
            /\ escaped' = parked[i].escaped
            /\ frame' = parked[i].frame
            /\ alone' = parked[i].alone
            /\ preempted' = parked[i].preempted
            /\ parked' = [parked EXCEPT ![i] =
                    [Running EXCEPT !.preempted =
                        preempted \/ pc \in {"engine", "deferred"}]]
    /\ UNCHANGED failures

NextConc == ConcCall \/ ConcEngine \/ ConcDeferred \/ ConcSwitch

SpecConc == InitConc /\ [][NextConc]_vars

(***************************************************************************)
(* Properties.                                                             *)
(***************************************************************************)
Returned == pc = "returned"

\* A bad-input error: the repository's Error value with code BadRequest.
IsBadInput(e) == e.type = "Error" /\ e.code = BadRequest

\* The invocation was refused by validation: bad-input error, no engine call.
Refused == IsBadInput(res.err) /\ Len(calls) = 0

\* The invocation handed its options to the gateway, which called the engine.
ReachedGateway == Len(calls) = 1 /\ ~IsBadInput(res.err)

\* The bimg.Options the engine was called with.
PassedOpts == calls[1].opts

\* C1: when the native call made by Process panics (with an error, a string
\* or any other value), Process returns a non-nil error and the empty Image,
\* and no panic leaves the operation.
C1_PanicBecomesError ==
    (Returned /\ Len(calls) > 0 /\ req.eng.kind = "panic")
        => (res.err # Nil /\ res.out = EmptyImage /\ escaped = NoPanic)

C1_Witness ==
    /\ Returned
    /\ Len(calls) = 1
    /\ req.eng = EnginePanic(PanicOther)
    /\ res.err = errorsNew(<<"libvips internal error">>)
    /\ res.out = EmptyImage
    /\ escaped = NoPanic

\* C2: in a sequence of invocations, one whose engine call succeeds returns
\* the engine's output with its MIME type and a nil error, however many
\* earlier invocations ended in an engine failure or a panic of the engine.
C2_SuccessAfterFailures ==
    (Returned /\ Len(calls) > 0 /\ req.eng.kind = "ok")
        => /\ res.err = Nil
           /\ res.out = Image(req.eng.buf,
                              GetImageMimeType(DetermineImageType(req.eng.buf)))
           /\ escaped = NoPanic

C2_Witness ==
    /\ Returned
    /\ failures = MaxFailures
    /\ req.op = "Resize"
    /\ req.eng = EngineOk(PngBuf)
    /\ res = [out |-> Image(PngBuf, "image/png"), err |-> Nil]

\* C3: whenever an operation (Info included) returns a non-nil error, the
\* Image it returns is empty: no Body and no Mime.
C3_FailureReturnsEmptyImage ==
    (Returned /\ res.err # Nil) => (res.out.Body = EmptyBuf /\ res.out.Mime = "")

TransformOps ==
    {"Resize", "Enlarge", "Extract", "Crop", "Rotate", "Thumbnail", "Zoom",
     "Convert", "Watermark"}

\* C4: a transformation operation returns a bad-input error only when it has
\* not called the engine, and it never calls the engine more than once.
C4_BadInputBeforeEngine ==
    (Returned /\ req.op \in TransformOps)
        => /\ IsBadInput(res.err) => Len(calls) = 0
           /\ Len(calls) <= 1

C4_Witness ==
    /\ Returned
    /\ req.op = "Zoom"
    /\ req.o.Factor # 0
    /\ req.eng.kind = "err"
    /\ IsBadInput(res.err)
    /\ Len(calls) = 0

\* C5: Resize, Crop, Thumbnail and Enlarge with width = 0 and height = 0
\* return a bad-input error and do not call the engine, whatever the other
\* option fields are.
C5_BothZeroRefused ==
    (Returned /\ req.op \in {"Resize", "Crop", "Thumbnail", "Enlarge"}
              /\ req.o.Width = 0 /\ req.o.Height = 0)
        => Refused

C5_Witness ==
    /\ Returned
    /\ req.op = "Crop"
    /\ req.o = [BusyOptions EXCEPT !.Width = 0, !.Height = 0]
    /\ Refused

\* C6: Enlarge returns a bad-input error whenever width = 0 or height = 0,
\* while Resize with exactly one of them nonzero reaches the gateway.
C6_EnlargeStricterThanResize ==
    /\ (Returned /\ req.op = "Enlarge" /\ (req.o.Width = 0 \/ req.o.Height = 0))
            => Refused
    /\ (Returned /\ req.op = "Resize" /\ ((req.o.Width = 0) # (req.o.Height = 0)))
            => ReachedGateway

C6_Witness ==
    /\ Returned
    /\ req.op = "Enlarge"
    /\ req.o.Width = 1
    /\ req.o.Height = 0
    /\ Refused

\* C7: Zoom with factor = 0 returns a bad-input error whatever the other
\* fields are, and so does Zoom with top > 0 and areaWidth = areaHeight = 0
\* for every nonzero factor; the engine is called in neither case.
C7_ZoomRefusals ==
    /\ (Returned /\ req.op = "Zoom" /\ req.o.Factor = 0) => Refused
    /\ (Returned /\ req.op = "Zoom" /\ req.o.Factor # 0 /\ req.o.Top > 0
                 /\ req.o.AreaWidth = 0 /\ req.o.AreaHeight = 0) => Refused

C7_Witness ==
    /\ Returned
    /\ req.op = "Zoom"
    /\ req.o.Factor = 1
    /\ req.o.Top = 1
    /\ req.o.Left = 0
    /\ req.o.AreaWidth = 0
    /\ req.o.AreaHeight = 0
    /\ Refused
    /\ res.err.msg = <<"Missing required params: areawidth, areaheight">>

\* C8: Convert with an empty type returns the bad-input error "missing type";
\* with a non-empty type that maps to the unknown-format sentinel it returns
\* a different bad-input error, "invalid type"; neither calls the gateway;
\* with a recognized type the gateway is called.
C8_ConvertTypeChecks ==
    LET missing == <<"Missing required param: type">>
        invalid == <<"Invalid image type: ", req.o.Type>>
    IN  (Returned /\ req.op = "Convert")
            => /\ req.o.Type = "" => (Refused /\ res.err.msg = missing)
               /\ (req.o.Type # "" /\ ImageType(req.o.Type) = "UNKNOWN")
                    => (Refused /\ res.err.msg = invalid /\ invalid # missing)
               /\ ImageType(req.o.Type) # "UNKNOWN" => ReachedGateway

C8_Witness ==
    /\ Returned
    /\ req.op = "Convert"
    /\ req.o.Type = "bmp"
    /\ Refused
    /\ res.err.msg = <<"Invalid image type: ", "bmp">>

\* C9: Watermark with empty text returns a bad-input error without calling
\* the engine, whatever the other fields are; with non-empty text it reaches
\* the gateway with the watermark's text, font, margin, dpi, width, opacity
\* and noReplicate equal to the request's.
C9_WatermarkFields ==
    (Returned /\ req.op = "Watermark")
        => /\ req.o.Text = "" => Refused
           /\ req.o.Text # ""
                => /\ ReachedGateway
                   /\ PassedOpts.Watermark.Text = req.o.Text
                   /\ PassedOpts.Watermark.Font = req.o.Font
                   /\ PassedOpts.Watermark.Margin = req.o.Margin
                   /\ PassedOpts.Watermark.DPI = req.o.DPI
                   /\ PassedOpts.Watermark.Width = req.o.TextWidth
                   /\ PassedOpts.Watermark.Opacity = req.o.Opacity
                   /\ PassedOpts.Watermark.NoReplicate = req.o.NoReplicate

C9_Witness ==
    /\ Returned
    /\ req.op = "Watermark"
    /\ req.o.Text = "hi"
    /\ req.o.TextWidth = 200
    /\ ReachedGateway
    /\ PassedOpts.Watermark.Width = 200
    /\ PassedOpts.Watermark.DPI = 72

\* C10: in Watermark, a colour array of fewer than 3 components leaves the
\* watermark background of the engine options unset; one of 3 or more sets
\* it to exactly the first three components.
C10_WatermarkBackground ==
    (Returned /\ req.op = "Watermark" /\ Len(calls) = 1)
        => /\ Len(req.o.Color) < 3
                => /\ PassedOpts.Watermark.Background = NoColor
                   /\ PassedOpts.Watermark.Background
                        = BimgOptions(req.o).Watermark.Background
           /\ Len(req.o.Color) >= 3
                => PassedOpts.Watermark.Background
                        = <<req.o.Color[1], req.o.Color[2], req.o.Color[3]>>

C10_Witness ==
    /\ Returned
    /\ req.op = "Watermark"
    /\ req.o.Color = <<1, 2, 1, 2>>
    /\ Len(calls) = 1
    /\ PassedOpts.Watermark.Background = <<1, 2, 1>>

\* C11: when the engine call of an operation succeeds, Image.Body is the
\* engine's output buffer and Image.Mime is the MIME type of the type detected
\* in that output, not that of the requested type or of the input buffer.
C11_MimeFromOutputBytes ==
    (Returned /\ Len(calls) > 0 /\ req.eng.kind = "ok")
        => /\ res.out.Body = req.eng.buf
           /\ res.out.Mime = GetImageMimeType(DetermineImageType(res.out.Body))

C11_Witness ==
    /\ Returned
    /\ req.op = "Convert"
    /\ req.buf = JpegBuf
    /\ req.o.Type = "png"
    /\ req.eng = EngineOk(WebpBuf)
    /\ res.out = Image(WebpBuf, "image/webp")

\* C12: every Zoom invocation that reaches the gateway with noCrop not
\* requested passes crop = true, whether or not top/left are present.
C12_ZoomCropsUnlessDisabled ==
    (Returned /\ req.op = "Zoom" /\ Len(calls) = 1 /\ req.o.NoCrop = FALSE)
        => PassedOpts.Crop = TRUE

\* C13: a Resize that passes validation hands the gateway embed = true,
\* whatever the request's embed flag, and crop = true exactly when noCrop is
\* not requested; an Enlarge that passes validation hands it enlarge = true
\* and crop = true exactly when noCrop is not requested.
C13_ResizeEnlargeOverrides ==
    /\ (Returned /\ req.op = "Resize" /\ Len(calls) = 1)
            => /\ PassedOpts.Embed = TRUE
               /\ PassedOpts.Crop = (req.o.NoCrop = FALSE)
    /\ (Returned /\ req.op = "Enlarge" /\ Len(calls) = 1)
            => /\ PassedOpts.Enlarge = TRUE
               /\ PassedOpts.Crop = (req.o.NoCrop = FALSE)

C13_Witness ==
    /\ Returned
    /\ req.op = "Resize"
    /\ req.o.Embed = FALSE
    /\ req.o.NoCrop = TRUE
    /\ Len(calls) = 1
    /\ PassedOpts.Embed = TRUE
    /\ PassedOpts.Crop = FALSE

\* C14: when the native resize call returns an error without panicking,
\* Process returns that same error value, not a bad-input error, and the
\* empty Image.
C14_EngineErrorVerbatim ==
    (Returned /\ Len(calls) > 0 /\ req.eng.kind = "err")
        => /\ res.err = req.eng.err
           /\ ~IsBadInput(res.err)
           /\ res.out = EmptyImage

C14_Witness ==
    /\ Returned
    /\ req.op = "Thumbnail"
    /\ Len(calls) = 1
    /\ req.eng = EngineErr(errorsNew(<<"Unsupported image format">>))
    /\ res = [out |-> EmptyImage, err |-> errorsNew(<<"Unsupported image format">>)]

\* The values of a JSON document's members, in order.
JsonValues(doc) == [i \in 1 .. Len(doc) |-> doc[i][2]]

\* C15: Info never calls the gateway and calls the metadata query exactly
\* once; when the query fails it returns a bad-input error wrapping the
\* engine's message; when it succeeds it returns a nil error, the JSON MIME
\* type and a Body whose eight fields (width, height, type, colour space,
\* alpha, profile, channels, orientation) are the engine-reported values,
\* whatever the Options are.
C15_InfoReportsMetadata ==
    (Returned /\ req.op = "Info")
        => /\ Len(calls) = 0
           /\ metaCalls = 1
           /\ req.meta.err # Nil
                => /\ IsBadInput(res.err)
                   /\ Len(res.err.msg) > Len(ErrorText(req.meta.err))
                   /\ SubSeq(res.err.msg,
                             Len(res.err.msg) - Len(ErrorText(req.meta.err)) + 1,
                             Len(res.err.msg)) = ErrorText(req.meta.err)
           /\ req.meta.err = Nil
                => /\ res.err = Nil
                   /\ res.out.Mime = "application/json"
                   /\ JsonValues(res.out.Body)
                        = <<req.meta.meta.Size.Width, req.meta.meta.Size.Height,
                            req.meta.meta.Type, req.meta.meta.Space,
                            req.meta.meta.Alpha, req.meta.meta.Profile,
                            req.meta.meta.Channels, req.meta.meta.Orientation>>

C15_Witness ==
    /\ Returned
    /\ req.op = "Info"
    /\ req.o = BusyOptions
    /\ req.meta.err = Nil
    /\ req.meta.meta.Size = [Width |-> 1, Height |-> 2]
    /\ res.err = Nil
    /\ JsonValues(res.out.Body) = <<1, 2, "jpeg", "srgb", FALSE, FALSE, 3, 0>>

\* C16: Resize, Crop and Thumbnail return a bad-input error without calling
\* the engine for every width and height of which neither is greater than 0,
\* negative values included.
C16_NonPositiveSizeRefused ==
    (Returned /\ req.op \in {"Resize", "Crop", "Thumbnail"}
              /\ ~(req.o.Width > 0) /\ ~(req.o.Height > 0))
        => Refused

\* C18: Extract returns a bad-input error without calling the engine when
\* areaWidth or areaHeight is not greater than 0, and otherwise hands the
\* gateway top, left, areaWidth and areaHeight equal to the request's.
C18_ExtractRectangle ==
    (Returned /\ req.op = "Extract")
        => IF req.o.AreaWidth > 0 /\ req.o.AreaHeight > 0
           THEN /\ ReachedGateway
                /\ PassedOpts.Top = req.o.Top
                /\ PassedOpts.Left = req.o.Left
                /\ PassedOpts.AreaWidth = req.o.AreaWidth
                /\ PassedOpts.AreaHeight = req.o.AreaHeight
           ELSE Refused

\* C19: Zoom with factor # 0 and top = left = 0 reaches the gateway whatever
\* areaWidth and areaHeight are and does not copy the request's rectangle;
\* with top > 0 or left > 0 it reaches the gateway as soon as one of
\* areaWidth, areaHeight is nonzero, and then copies top, left, areaWidth and
\* areaHeight from the request and sets zoom = factor.
C19_ZoomConditionalRectangle ==
    /\ (Returned /\ req.op = "Zoom" /\ req.o.Factor # 0
                 /\ req.o.Top = 0 /\ req.o.Left = 0)
            => /\ ReachedGateway
               /\ PassedOpts.Top = BimgOptions(req.o).Top
               /\ PassedOpts.Left = BimgOptions(req.o).Left
               /\ PassedOpts.AreaWidth = BimgOptions(req.o).AreaWidth
               /\ PassedOpts.AreaHeight = BimgOptions(req.o).AreaHeight
    /\ (Returned /\ req.op = "Zoom" /\ req.o.Factor # 0
                 /\ (req.o.Top > 0 \/ req.o.Left > 0)
                 /\ (req.o.AreaWidth # 0 \/ req.o.AreaHeight # 0))
            => /\ ReachedGateway
               /\ PassedOpts.Top = req.o.Top
               /\ PassedOpts.Left = req.o.Left
               /\ PassedOpts.AreaWidth = req.o.AreaWidth
               /\ PassedOpts.AreaHeight = req.o.AreaHeight
               /\ PassedOpts.Zoom = req.o.Factor

C19_Witness ==
    /\ Returned
    /\ req.op = "Zoom"
    /\ req.o.Factor = 2
    /\ req.o.Top = 0
    /\ req.o.Left = 1
    /\ req.o.AreaWidth = 0
    /\ req.o.AreaHeight = 2
    /\ ReachedGateway
    /\ PassedOpts.Left = 1
    /\ PassedOpts.AreaHeight = 2
    /\ PassedOpts.Zoom = 2

\* C20: Rotate returns a bad-input error without calling the engine when
\* rotate = 0, and whenever it calls the engine the rotate value it forwards
\* is a multiple of 90.
C20_RotateMultipleOf90 ==
    (Returned /\ req.op = "Rotate")
        => /\ req.o.Rotate = 0 => Refused
           /\ Len(calls) > 0 => PassedOpts.Rotate % 90 = 0
\* The invocations of the program, running and parked.
Invocations == {Running} \cup {parked[i] : i \in DOMAIN parked}

\* The invocation c ended as it ends when it runs alone.
SameAsAlone(c) ==
    /\ c.res = [out |-> c.alone.out, err |-> c.alone.err]
    /\ c.calls = c.alone.calls
    /\ c.metaCalls = c.alone.meta
    /\ c.escaped = c.alone.panic

\* C17: when several invocations run concurrently, each on its own buffer
\* and options, in every interleaving no panic leaves an invocation, no
\* invocation is ended by another one's engine panic, and every invocation
\* that returned has the result, the engine calls and the metadata calls it
\* has when it runs alone.
C17_ConcurrentSameAsAlone ==
    \A c \in Invocations :
        /\ c.pc # "killed"
        /\ c.escaped = NoPanic
        /\ c.pc = "returned" => SameAsAlone(c)

C17_Witness ==
    /\ pc = "returned"
    /\ preempted
    /\ req.op = "Zoom"
    /\ req.eng = EngineOk(PngBuf)
    /\ res = [out |-> Image(PngBuf, "image/png"), err |-> Nil]
    /\ Len(parked) = Goroutines - 1
    /\ parked[1].pc = "returned"
    /\ parked[1].preempted
    /\ parked[1].req.op = "Convert"
    /\ parked[1].req.eng = EnginePanic(PanicOther)
    /\ parked[1].res = [out |-> EmptyImage,
                        err |-> errorsNew(<<"libvips internal error">>)]
    /\ parked[1].escaped = NoPanic
\* The bimg.Options fields an operation assigns after the mapper ran.
Assigned(op) ==
    CASE op = "Resize" -> {"Embed", "Crop"}
      [] op = "Enlarge" -> {"Enlarge", "Crop"}
      [] op = "Extract" -> {"Top", "Left", "AreaWidth", "AreaHeight"}
      [] op = "Crop" -> {"Crop"}
      [] op = "Flip" -> {"Flip"}
      [] op = "Flop" -> {"Flop"}
      [] op = "Zoom" -> {"Zoom", "Top", "Left", "AreaWidth", "AreaHeight", "Crop"}
      [] op = "Watermark" -> {"Watermark"}
      [] OTHER -> {}

\* C21: an operation that is not refused hands its options to Process
\* exactly once, with the request's buffer, and a refused one never does;
\* Flip is never refused.  Thumbnail, Rotate and Convert pass the mapper's
\* output unchanged; Flip passes it with only Flip set to true, also when
\* the request's flip is false, Flop with only Flop set to true, Crop with
\* only Crop set to true; for every operation the fields it does not assign
\* equal the mapper's output.
C21_OnlyListedFieldsChange ==
    (Returned /\ req.op # "Info")
        => /\ Len(calls) = (IF Refused THEN 0 ELSE 1)
           /\ req.op = "Flip" => Len(calls) = 1
           /\ Len(calls) = 1 =>
                /\ calls[1].buf = req.buf
                /\ \A f \in DOMAIN PassedOpts \ Assigned(req.op) :
                        PassedOpts[f] = BimgOptions(req.o)[f]
                /\ req.op \in {"Thumbnail", "Rotate", "Convert"}
                        => PassedOpts = BimgOptions(req.o)
                /\ req.op = "Flip"
                        => PassedOpts = [BimgOptions(req.o) EXCEPT !.Flip = TRUE]
                /\ req.op = "Flop"
                        => PassedOpts = [BimgOptions(req.o) EXCEPT !.Flop = TRUE]
                /\ req.op = "Crop"
                        => PassedOpts = [BimgOptions(req.o) EXCEPT !.Crop = TRUE]

C21_Witness ==
    /\ Returned
    /\ req.op = "Flip"
    /\ req.o = [BusyOptions EXCEPT !.Flip = FALSE, !.Flop = TRUE]
    /\ Len(calls) = 1
    /\ PassedOpts.Flip
    /\ PassedOpts.Flop
    /\ PassedOpts.Width = 1
    /\ PassedOpts.Rotate = 90
    /\ ~PassedOpts.Crop
====
